---- MODULE Spec2Model ----
(***************************************************************************)
(* A model of the uiua source formatter, src/src/format.rs: the driver     *)
(* (format_file, format, format_items), the tree serializer (the Format    *)
(* impls of Item, Binding, Word and Primitive) and the spacing rules of    *)
(* FormatState.  Text is a sequence of one-character strings.  The parser, *)
(* the primitive registry and the compiler (the binding oracle) live in    *)
(* other files of the crate; they are modelled from their interface.       *)
(***************************************************************************)
EXTENDS Integers, Sequences, FiniteSets, TLC

(* ---------------------------------------------------------------------- *)
(* Bounds of the model                                                     *)
(* ---------------------------------------------------------------------- *)
\* longest item sequence handed to format_items directly
MaxItems == 3
\* longest word sequence of the one-item adjacency inputs
MaxWords == 2
\* most lines of a source file
MaxLines == 2
\* most invocations of format_file on the same path
MaxRuns == 2

(* ---------------------------------------------------------------------- *)
(* Characters and text                                                     *)
(* ---------------------------------------------------------------------- *)
Letters == {"a", "d", "s", "i", "n", "x", "c"}

DigitChars == <<"0", "1", "2", "3", "4", "5", "6", "7", "8", "9">>

Digits == {DigitChars[i] : i \in 1..10}

\* char::is_alphabetic
is_alphabetic(c) == c \in Letters

\* char::is_alphanumeric
is_alphanumeric(c) == c \in Letters \cup Digits

\* char::is_whitespace
is_whitespace(c) == c \in {" ", "\n", "\t"}

\* the characters that satisfy char::is_alphabetic, char::is_alphanumeric
Alphabetic == {c \in Letters \cup Digits : is_alphabetic(c)}

Alphanumeric == {c \in Letters \cup Digits : is_alphanumeric(c)}

\* str::ends_with(pred), for the characters S that satisfy pred
ends_with(s, S) == Len(s) > 0 /\ s[Len(s)] \in S

\* str::starts_with(pred), for the characters S that satisfy pred
starts_with(s, S) == Len(s) > 0 /\ s[1] \in S

\* str::trim_end: drop the longest suffix of whitespace
RECURSIVE trim_end(_)
trim_end(s) ==
    IF Len(s) > 0 /\ is_whitespace(s[Len(s)])
    THEN trim_end(SubSeq(s, 1, Len(s) - 1))
    ELSE s

\* str::trim_start
RECURSIVE trim_start(_)
trim_start(s) ==
    IF Len(s) > 0 /\ is_whitespace(s[1])
    THEN trim_start(SubSeq(s, 2, Len(s)))
    ELSE s

\* concatenation of a sequence of texts
RECURSIVE Concat(_)
Concat(ss) == IF ss = <<>> THEN <<>> ELSE Head(ss) \o Concat(Tail(ss))

\* all sequences over S of length at most n
SeqUpTo(S, n) == UNION {[1..k -> S] : k \in 0..n}

(* ---------------------------------------------------------------------- *)
(* Display and Debug renderings (std::fmt)                                 *)
(* ---------------------------------------------------------------------- *)
\* decimal digits of a natural number
RECURSIVE NatDigits(_)
NatDigits(n) ==
    IF n < 10 THEN <<DigitChars[n + 1]>>
    ELSE NatDigits(n \div 10) \o <<DigitChars[(n % 10) + 1]>>

\* Display of a whole f64: a minus sign for negatives, then the digits
DisplayReal(n) == IF n < 0 THEN <<"-">> \o NatDigits(0 - n) ELSE NatDigits(n)

\* char::escape_debug for the characters of the model; q is the quote that
\* delimits the literal (only that quote is escaped)
EscapeDebug(c, q) ==
    IF c = "\n" THEN <<"\\", "n">>
    ELSE IF c = "\\" THEN <<"\\", "\\">>
    ELSE IF c = q THEN <<"\\", q>>
    ELSE <<c>>

\* format!("{c:?}") of a char
DebugChar(c) == <<"'">> \o EscapeDebug(c, "'") \o <<"'">>

\* format!("{s:?}") of a string
RECURSIVE EscapeStr(_)
EscapeStr(s) ==
    IF s = <<>> THEN <<>> ELSE EscapeDebug(Head(s), "\"") \o EscapeStr(Tail(s))

DebugString(s) == <<"\"">> \o EscapeStr(s) \o <<"\"">>

(* ---------------------------------------------------------------------- *)
(* The syntax tree (crate::ast): every Word has the same record shape      *)
(* ---------------------------------------------------------------------- *)
Word(k, n, s, p, ws) == [k |-> k, n |-> n, s |-> s, p |-> p, ws |-> ws]

Real(n) == Word("Real", n, <<>>, "", <<>>)
Char(c) == Word("Char", 0, <<c>>, "", <<>>)
String(s) == Word("String", 0, s, "", <<>>)
Ident(s) == Word("Ident", 0, s, "", <<>>)
Strand(ws) == Word("Strand", 0, <<>>, "", ws)
Array(ws) == Word("Array", 0, <<>>, "", ws)
Func(body) == Word("Func", 0, <<>>, "", body)
Selector(s) == Word("Selector", 0, s, "", <<>>)
FuncArray(fs) == Word("FuncArray", 0, <<>>, "", fs)
Primitive(p) == Word("Primitive", 0, <<>>, p, <<>>)
Modified(m, w) == Word("Modified", 0, <<>>, "", <<m, w>>)
NoWord == Word("None", 0, <<>>, "", <<>>)

Item(k, name, words, comment) ==
    [k |-> k, name |-> name, words |-> words, comment |-> comment]

Words(ws) == Item("Words", <<>>, ws, <<>>)
Binding(name, ws) == Item("Binding", name, ws, <<>>)
Comment(c) == Item("Comment", <<>>, <<>>, c)
Newlines == Item("Newlines", <<>>, <<>>, <<>>)

(* ---------------------------------------------------------------------- *)
(* The primitive registry (crate::ops)                                     *)
(* ---------------------------------------------------------------------- *)
Primitives == {"Add", "Sin"}

\* Primitive::from_name: Option<Primitive>, "None" when no primitive matches
from_name(name) ==
    IF name = <<"a", "d", "d">> THEN "Add"
    ELSE IF name = <<"s", "i", "n">> THEN "Sin"
    ELSE "None"

\* Primitive::to_string: the canonical display form
prim_to_string(p) == IF p = "Add" THEN <<"+">> ELSE <<"s", "i", "n">>

\* the glyphs the lexer reads as primitives
from_glyph(c) == IF c = "+" THEN "Add" ELSE "None"

\* Selector::to_string: a selector is an opaque token that carries its text
selector_to_string(w) == w.s

(* ---------------------------------------------------------------------- *)
(* The binding oracle (crate::compile::Compiler)                           *)
(* ---------------------------------------------------------------------- *)
\* Compiler::new().eval_consts(false)
Compiler_new == [bound |-> {}, errors |-> <<>>]

\* Compiler::is_bound
is_bound(c, ident) == ident \in c.bound

\* the identifiers of a word sequence, in document order
RECURSIVE IdentsOf(_)
IdentsOf(ws) ==
    IF ws = <<>> THEN <<>>
    ELSE LET w == Head(ws)
         IN  (IF w.k = "Ident" THEN <<w.s>> ELSE IdentsOf(w.ws))
             \o IdentsOf(Tail(ws))

\* the identifiers the compiler cannot resolve: neither bound nor primitive
Unresolved(c, ws) ==
    SelectSeq(IdentsOf(ws), LAMBDA id : id \notin c.bound /\ from_name(id) = "None")

CompileError(variant, text, span) ==
    [variant |-> variant, text |-> text, span |-> span]

\* Compiler::item: register one item; an item with an identifier that does
\* not resolve leaves one diagnostic, a Binding binds its name
Compiler_item(c, item) ==
    LET bad == Unresolved(c, item.words)
    IN  [bound |-> IF item.k = "Binding" THEN c.bound \cup {item.name} ELSE c.bound,
         errors |-> IF bad # <<>>
                    THEN Append(c.errors, CompileError("UnknownBinding", bad[1], 0))
                    ELSE c.errors]

(* ---------------------------------------------------------------------- *)
(* The parser (crate::lex, crate::parse)                                   *)
(* ---------------------------------------------------------------------- *)
\* the lines of a text, as str::lines: a final newline ends the last line
RECURSIVE SplitLines(_, _)
SplitLines(s, cur) ==
    IF s = <<>> THEN (IF cur = <<>> THEN <<>> ELSE <<cur>>)
    ELSE IF Head(s) = "\n" THEN <<cur>> \o SplitLines(Tail(s), <<>>)
    ELSE SplitLines(Tail(s), Append(cur, Head(s)))

\* length of the longest prefix of s whose characters are in S
RECURSIVE PrefixLen(_, _)
PrefixLen(s, S) ==
    IF s # <<>> /\ Head(s) \in S THEN 1 + PrefixLen(Tail(s), S) ELSE 0

Token(t, s) == [t |-> t, s |-> s]

\* the lexer: maximal runs of digits are numbers, a letter followed by
\* letters and digits is an identifier, blanks separate
RECURSIVE lex(_)
lex(s) ==
    IF s = <<>> THEN <<>>
    ELSE LET c == Head(s)
         IN  IF is_whitespace(c) THEN lex(Tail(s))
             ELSE IF c \in Digits
             THEN LET k == PrefixLen(s, Digits)
                  IN  <<Token("num", SubSeq(s, 1, k))>> \o lex(SubSeq(s, k + 1, Len(s)))
             ELSE IF is_alphabetic(c)
             THEN LET k == PrefixLen(s, Letters \cup Digits)
                  IN  <<Token("ident", SubSeq(s, 1, k))>> \o lex(SubSeq(s, k + 1, Len(s)))
             ELSE IF c \in {"_", "="} \/ from_glyph(c) # "None"
             THEN <<Token("sym", <<c>>)>> \o lex(Tail(s))
             ELSE <<Token("bad", <<c>>)>> \o lex(Tail(s))

\* the value of a run of decimal digits
RECURSIVE ParseNat(_)
ParseNat(ds) ==
    IF ds = <<>> THEN 0
    ELSE 10 * ParseNat(SubSeq(ds, 1, Len(ds) - 1))
         + (CHOOSE i \in 0..9 : DigitChars[i + 1] = ds[Len(ds)])

\* a term joined to the word before it by `_`
JoinStrand(last, w) ==
    IF last.k = "Strand" THEN Strand(Append(last.ws, w)) ELSE Strand(<<last, w>>)

\* the words of a token sequence; pend: a `_` waits for its right operand
RECURSIVE try_words(_, _, _)
try_words(toks, acc, pend) ==
    IF toks = <<>> THEN [ok |-> ~pend, words |-> acc]
    ELSE LET t == Head(toks)
             isTerm == t.t \in {"num", "ident"}
                       \/ (t.t = "sym" /\ from_glyph(t.s[1]) # "None")
             w == IF t.t = "num" THEN Real(ParseNat(t.s))
                  ELSE IF t.t = "ident" THEN Ident(t.s)
                  ELSE Primitive(from_glyph(t.s[1]))
         IN  IF t = Token("sym", <<"_">>)
             THEN IF acc = <<>> \/ pend THEN [ok |-> FALSE, words |-> <<>>]
                  ELSE try_words(Tail(toks), acc, TRUE)
             ELSE IF ~isTerm THEN [ok |-> FALSE, words |-> <<>>]
             ELSE IF pend
             THEN try_words(Tail(toks),
                            Append(SubSeq(acc, 1, Len(acc) - 1),
                                   JoinStrand(acc[Len(acc)], w)), FALSE)
             ELSE try_words(Tail(toks), Append(acc, w), FALSE)

\* one line of source: a blank line, a comment, a binding or words
try_item(line) ==
    LET body == trim_start(line)
        toks == lex(line)
        isBinding == Len(toks) >= 2 /\ toks[1].t = "ident"
                     /\ toks[2] = Token("sym", <<"=">>)
        r == IF isBinding THEN try_words(SubSeq(toks, 3, Len(toks)), <<>>, FALSE)
             ELSE try_words(toks, <<>>, FALSE)
    IN  IF body = <<>> THEN [ok |-> TRUE, item |-> Newlines]
        ELSE IF Head(body) = "#"
        THEN [ok |-> TRUE, item |-> Comment(trim_end(trim_start(Tail(body))))]
        ELSE IF ~r.ok THEN [ok |-> FALSE, item |-> Newlines]
        ELSE IF isBinding THEN [ok |-> TRUE, item |-> Binding(toks[1].s, r.words)]
        ELSE [ok |-> TRUE, item |-> Words(r.words)]

ParseError(line) == [msg |-> "syntax", line |-> line]

\* parse(input, path) -> (items, errors): the items of the lines that parse
\* and one diagnostic for each line that does not
parse(input) ==
    LET lines == SplitLines(input, <<>>)
        rs == [i \in 1..Len(lines) |-> try_item(lines[i])]
        ixs == [i \in 1..Len(lines) |-> i]
        okIxs == SelectSeq(ixs, LAMBDA i : rs[i].ok)
        badIxs == SelectSeq(ixs, LAMBDA i : ~rs[i].ok)
    IN  [items |-> [j \in 1..Len(okIxs) |-> rs[okIxs[j]].item],
         errors |-> [j \in 1..Len(badIxs) |-> ParseError(badIxs[j])]]

\* Sp::map_into: a parse diagnostic as a CompileError
map_into(e) == CompileError("Parse", <<>>, e.line)

(* ---------------------------------------------------------------------- *)
(* FormatState and its spacing rules                                       *)
(* ---------------------------------------------------------------------- *)
\* FormatState { string, was_strand, compiler } as format_items creates it
FormatState_new == [string |-> <<>>, was_strand |-> FALSE, compiler |-> Compiler_new]

\* push that leaves was_strand as it is
push_KeepFlag(st, t) == [st EXCEPT !.string = @ \o t]

\* push that assigns the text instead of appending it
push_Overwrite(st, t) == [st EXCEPT !.was_strand = FALSE, !.string = t]

\* FormatState::push: every append clears was_strand
push(st, t) == [st EXCEPT !.was_strand = FALSE, !.string = @ \o t]

\* space_if_was_strand that never appends
space_if_was_strand_Never(st) == st

\* FormatState::space_if_was_strand
space_if_was_strand(st) == IF st.was_strand THEN push(st, <<" ">>) ELSE st

\* space_if_alphanumeric without the check of the last character
space_if_alphanumeric_StrandOnly(st) == space_if_was_strand(st)

\* space_if_alphanumeric that looks at the last character before the space
\* of the strand is appended
space_if_alphanumeric_Both(st) ==
    IF ends_with(st.string, Alphanumeric)
    THEN push(space_if_was_strand(st), <<" ">>)
    ELSE space_if_was_strand(st)

\* FormatState::space_if_alphanumeric
space_if_alphanumeric(st) ==
    LET s1 == space_if_was_strand(st)
    IN  IF ends_with(s1.string, Alphanumeric) THEN push(s1, <<" ">>) ELSE s1

\* space_if_alphabetic that checks for an alphanumeric character
space_if_alphabetic_AsAlphanumeric(st) == space_if_alphanumeric(st)

\* FormatState::space_if_alphabetic
space_if_alphabetic(st) ==
    LET s1 == space_if_was_strand(st)
    IN  IF ends_with(s1.string, Alphabetic) THEN push(s1, <<" ">>) ELSE s1

(* ---------------------------------------------------------------------- *)
(* The tree serializer: each format call unfolds into the calls it makes,  *)
(* kept as a stack of frames; site is the source line of the call          *)
(* ---------------------------------------------------------------------- *)
Frame(op, w, t, site) == [op |-> op, w |-> w, t |-> t, site |-> site]

FPush(t, site) == Frame("push", NoWord, t, site)
FWord(w) == Frame("word", w, <<>>, 0)
FPrim(p, site) == Frame("prim", Primitive(p), <<>>, site)
FSpaceAn(site) == Frame("space_if_alphanumeric", NoWord, <<>>, site)
FSpaceAb(site) == Frame("space_if_alphabetic", NoWord, <<>>, site)
FWasStrand == Frame("was_strand", NoWord, <<>>, 156)
FCompilerItem == Frame("compiler_item", NoWord, <<>>, 110)

\* `for word in words { word.value.format(state) }`
FWords(ws) == [i \in 1..Len(ws) |-> FWord(ws[i])]

\* the members of a sequence with a separator pushed before all but the first
RECURSIVE Separated(_, _, _, _)
Separated(parts, sep, site, i) ==
    IF i > Len(parts) THEN <<>>
    ELSE (IF i > 1 THEN <<FPush(<<sep>>, site)>> ELSE <<>>)
         \o parts[i] \o Separated(parts, sep, site, i + 1)

\* Primitive::format that applies the spacing rule to every form
Primitive_format_AlwaysSpace(p) ==
    <<FSpaceAn(201), FPush(prim_to_string(p), 203)>>

\* impl Format for Primitive
Primitive_format(p) ==
    LET s == prim_to_string(p)
    IN  IF starts_with(s, Alphabetic)
        THEN <<FSpaceAn(201), FPush(s, 203)>>
        ELSE <<FPush(s, 203)>>

\* Word::Ident without the is_bound check: a primitive's name is always
\* rendered as the primitive
Word_format_IgnoreBound(w, compiler) ==
    IF w.k = "Ident"
    THEN IF from_name(w.s) # "None"
         THEN <<FPrim(from_name(w.s), 143)>>
         ELSE <<FSpaceAb(146), FPush(w.s, 147)>>
    ELSE IF w.k = "Strand"
    THEN Separated([i \in 1..Len(w.ws) |-> <<FWord(w.ws[i])>>], "_", 152, 1)
         \o <<FWasStrand>>
    ELSE IF w.k = "Array"
    THEN <<FPush(<<"[">>, 159)>> \o FWords(w.ws) \o <<FPush(<<"]">>, 163)>>
    ELSE IF w.k = "Func"
    THEN <<FPush(<<"(">>, 166)>> \o FWords(w.ws) \o <<FPush(<<")">>, 170)>>
    ELSE IF w.k = "FuncArray"
    THEN <<FPush(<<"(">>, 177)>>
         \o Separated([i \in 1..Len(w.ws) |-> FWords(w.ws[i].ws)], "|", 180, 1)
         \o <<FPush(<<")">>, 186)>>
    ELSE IF w.k = "Modified" THEN <<FWord(w.ws[1]), FWord(w.ws[2])>>
    ELSE IF w.k = "Primitive" THEN <<FPrim(w.p, 188)>>
    ELSE IF w.k = "Selector" THEN <<FSpaceAb(173), FPush(selector_to_string(w), 174)>>
    ELSE IF w.k = "Real" THEN <<FSpaceAn(129), FPush(DisplayReal(w.n), 130)>>
    ELSE IF w.k = "Char" THEN <<FSpaceAn(133), FPush(DebugChar(w.s[1]), 134)>>
    ELSE <<FSpaceAn(137), FPush(DebugString(w.s), 138)>>

\* impl Format for Word, given the compiler the identifier check consults
Word_format(w, compiler) ==
    CASE w.k = "Real" -> <<FSpaceAn(129), FPush(DisplayReal(w.n), 130)>>
      [] w.k = "Char" -> <<FSpaceAn(133), FPush(DebugChar(w.s[1]), 134)>>
      [] w.k = "String" -> <<FSpaceAn(137), FPush(DebugString(w.s), 138)>>
      [] w.k = "Ident" ->
            IF ~is_bound(compiler, w.s) /\ from_name(w.s) # "None"
            THEN <<FPrim(from_name(w.s), 143)>>
            ELSE <<FSpaceAb(146), FPush(w.s, 147)>>
      [] w.k = "Strand" ->
            Separated([i \in 1..Len(w.ws) |-> <<FWord(w.ws[i])>>], "_", 152, 1)
            \o <<FWasStrand>>
      [] w.k = "Array" -> <<FPush(<<"[">>, 159)>> \o FWords(w.ws) \o <<FPush(<<"]">>, 163)>>
      [] w.k = "Func" -> <<FPush(<<"(">>, 166)>> \o FWords(w.ws) \o <<FPush(<<")">>, 170)>>
      [] w.k = "Selector" -> <<FSpaceAb(173), FPush(selector_to_string(w), 174)>>
      [] w.k = "FuncArray" ->
            <<FPush(<<"(">>, 177)>>
            \o Separated([i \in 1..Len(w.ws) |-> FWords(w.ws[i].ws)], "|", 180, 1)
            \o <<FPush(<<")">>, 186)>>
      [] w.k = "Primitive" -> <<FPrim(w.p, 188)>>
      [] w.k = "Modified" -> <<FWord(w.ws[1]), FWord(w.ws[2])>>

\* Binding::format that renders the name as an identifier word
Binding_format_NameAsWord(b) ==
    <<FWord(Ident(b.name)), FPush(<<" ", "=", " ">>, 118)>> \o FWords(b.words)

\* impl Format for Binding
Binding_format(b) ==
    <<FPush(b.name, 117), FPush(<<" ", "=", " ">>, 118)>> \o FWords(b.words)

\* the content of an item, before its registration
Item_content(item) ==
    CASE item.k = "Words" -> FWords(item.words)
      [] item.k = "Binding" -> Binding_format(item)
      [] item.k = "Comment" -> <<FPush(<<"#", " ">>, 105), FPush(item.comment, 106)>>
      [] item.k = "Newlines" -> <<>>

\* Item::format that never hands the item to the compiler
Item_format_NoRegister(item) == Item_content(item) \o <<FPush(<<"\n">>, 111)>>

\* Item::format that hands the item to the compiler before rendering it
Item_format_RegisterFirst(item) ==
    <<FCompilerItem>> \o Item_content(item) \o <<FPush(<<"\n">>, 111)>>

\* Item::format that does not end the item with a newline
Item_format_NoNewline(item) == Item_content(item) \o <<FCompilerItem>>

\* impl Format for Item: the content, then compiler.item, then the newline
Item_format(item) ==
    Item_content(item) \o <<FCompilerItem, FPush(<<"\n">>, 111)>>

(* ---------------------------------------------------------------------- *)
(* Inputs of the model                                                     *)
(* ---------------------------------------------------------------------- *)
id_x == <<"x">>
id_add == <<"a", "d", "d">>
id_sin == <<"s", "i", "n">>

\* the words whose adjacencies the model explores
WordPool ==
    {Real(1), Real(-1), Char("a"), String(<<"a", "\"">>),
     Ident(id_x), Ident(<<"x", "1">>), Ident(id_add), Ident(id_sin),
     Selector(<<"a">>), Primitive("Add"), Primitive("Sin"),
     Strand(<<Real(1), Real(2)>>), Strand(<<Real(1), Real(2), Real(3)>>),
     Strand(<<Ident(id_x), Ident(id_sin)>>),
     Array(<<Real(1), Ident(id_x)>>), Func(<<Ident(id_x), Real(1)>>),
     FuncArray(<<Func(<<Real(1)>>), Func(<<Strand(<<Ident(id_x), Real(2)>>)>>)>>),
     Modified(Primitive("Sin"), Ident(id_x))}

\* the items of the multi-item inputs
ItemPool ==
    {Words(<<Ident(id_add)>>), Binding(id_add, <<Ident(id_add), Real(1)>>),
     Words(<<Ident(id_x)>>), Binding(id_x, <<Real(10)>>),
     Words(<<Real(1), Ident(id_sin)>>), Words(<<Strand(<<Real(1), Real(2)>>)>>),
     Comment(<<"c", " ">>), Newlines}

\* the arguments of a direct call of format_items
InputItems ==
    SeqUpTo(ItemPool, MaxItems)
    \cup {<<Words(ws)>> : ws \in SeqUpTo(WordPool, MaxWords)}
    \cup {<<Binding(id_x, <<Real(1)>>), Binding(<<"x", "1">>, <<Real(1)>>), Words(ws)>> :
             ws \in SeqUpTo(WordPool, MaxWords)}

\* the lines source files are made of
Lines ==
    {<<"a", "d", "d">>,
     <<"a", "d", "d", " ", "=", " ", "1">>,
     <<"a", "d", "d", " ", "=", " ", "a", "d", "d", " ", "1">>,
     <<"x">>,
     <<"x", " ", "=", " ", "2">>,
     <<"1", "_", "2", " ", "s", "i", "n">>,
     <<"#", " ", "c">>,
     <<>>,
     <<"1", " ", "$">>,
     <<"0", "1", "x">>,
     <<"s", "i", "n", " ", "1", " ", " ">>,
     <<"#", "c", " ">>}

\* lines joined by newlines
RECURSIVE JoinLines(_)
JoinLines(ls) ==
    IF ls = <<>> THEN <<>>
    ELSE IF Len(ls) = 1 THEN ls[1]
    ELSE ls[1] \o <<"\n">> \o JoinLines(Tail(ls))

\* the contents of the file before the first call: with and without a
\* final newline
InputTexts ==
    {JoinLines(ls) \o nl : ls \in SeqUpTo(Lines, MaxLines), nl \in {<<>>, <<"\n">>}}

(* ---------------------------------------------------------------------- *)
(* State                                                                   *)
(* ---------------------------------------------------------------------- *)
VARIABLES
    file,        \* the content of the file at the path
    entry,       \* the public function that is called: format_file or format_items
    pc,          \* the position of the call in flight
    runs,        \* the calls made so far
    reads,       \* fs::read_to_string calls of the call in flight
    writes,      \* fs::write calls of the call in flight
    input,       \* format_file: the text read
    errors,      \* format: the parse diagnostics, as CompileErrors
    items,       \* format_items: the items to render
    idx,         \* format_items: the number of items the loop has taken
    state,       \* format_items: the FormatState
    stack,       \* the format calls of the current item still to be made
    oracle_log,  \* the calls made on the Compiler, in order
    ret,         \* the value returned by the callee
    result,      \* the value returned to the caller
    prev         \* the value the call before returned

vars == <<file, entry, pc, runs, reads, writes, input, errors, items, idx,
          state, stack, oracle_log, ret, result, prev>>

Res(tag, kind, text, errs) == [tag |-> tag, kind |-> kind, text |-> text, errors |-> errs]
Ok(text) == Res("Ok", "", text, <<>>)
\* Err(Vec<Sp<CompileError>>) of format and format_items
Err(errs) == Res("Err", "Diagnostics", <<>>, errs)
NoRes == Res("None", "", <<>>, <<>>)

NoItem == Item("None", <<>>, <<>>, <<>>)
LogEntry(call, ident, item, at) == [call |-> call, ident |-> ident, item |-> item, at |-> at]

Init ==
    /\ \/ entry = "format_file" /\ file \in InputTexts /\ items = <<>>
       \/ entry = "format_items" /\ file = <<>> /\ items \in InputItems
    /\ pc = "idle"
    /\ runs = 0 /\ reads = 0 /\ writes = 0
    /\ input = <<>> /\ errors = <<>> /\ idx = 0
    /\ state = FormatState_new
    /\ stack = <<>>
    /\ oracle_log = <<>>
    /\ ret = NoRes /\ result = NoRes /\ prev = NoRes

(* ---------------------------------------------------------------------- *)
(* format_file                                                             *)
(* ---------------------------------------------------------------------- *)
\* a caller invokes format_file(path)
CallFormatFile ==
    /\ entry = "format_file" /\ pc \in {"idle", "done"} /\ runs < MaxRuns
    /\ pc' = "ff_read"
    /\ runs' = runs + 1 /\ reads' = 0 /\ writes' = 0
    /\ prev' = result /\ result' = NoRes /\ ret' = NoRes
    /\ input' = <<>> /\ errors' = <<>> /\ items' = <<>> /\ idx' = 0
    /\ state' = FormatState_new /\ stack' = <<>> /\ oracle_log' = <<>>
    /\ UNCHANGED <<file, entry>>

\* fs::read_to_string(path) succeeds
ReadOk ==
    /\ pc = "ff_read"
    /\ reads' = reads + 1
    /\ input' = file
    /\ pc' = "fmt_parse"
    /\ UNCHANGED <<file, entry, runs, writes, errors, items, idx, state, stack,
                   oracle_log, ret, result, prev>>

\* fs::read_to_string(path) fails: `?` returns UiuaError::Load
ReadFail ==
    /\ pc = "ff_read"
    /\ reads' = reads + 1
    /\ result' = Res("Err", "Load", <<>>, <<>>)
    /\ pc' = "done"
    /\ UNCHANGED <<file, entry, runs, writes, input, errors, items, idx, state,
                   stack, oracle_log, ret, prev>>

\* format_file without the comparison: the formatted text is always written
FormatFileCompare_AlwaysWrite ==
    /\ pc = "ff_formatted"
    /\ IF ret.tag = "Err"
       THEN result' = ret /\ pc' = "done"
       ELSE result' = result /\ pc' = "ff_write"
    /\ UNCHANGED <<file, entry, runs, reads, writes, input, errors, items, idx,
                   state, stack, oracle_log, ret, prev>>

\* format_file without the `?`: the diagnostics are dropped and the (empty)
\* text is compared and written
FormatFileCompare_WriteOnErr ==
    /\ pc = "ff_formatted"
    /\ IF ret.text = input
       THEN result' = Ok(ret.text) /\ pc' = "done"
       ELSE result' = result /\ pc' = "ff_write"
    /\ UNCHANGED <<file, entry, runs, reads, writes, input, errors, items, idx,
                   state, stack, oracle_log, ret, prev>>

\* `let formatted = format(&input, path)?; if formatted == input { return }`
FormatFileCompare ==
    /\ pc = "ff_formatted"
    /\ IF ret.tag = "Err"
       THEN result' = ret /\ pc' = "done"
       ELSE IF ret.text = input
       THEN result' = Ok(ret.text) /\ pc' = "done"
       ELSE result' = result /\ pc' = "ff_write"
    /\ UNCHANGED <<file, entry, runs, reads, writes, input, errors, items, idx,
                   state, stack, oracle_log, ret, prev>>

\* fs::write(path, &formatted) succeeds
WriteOk ==
    /\ pc = "ff_write"
    /\ writes' = writes + 1
    /\ file' = ret.text
    /\ result' = Ok(ret.text)
    /\ pc' = "done"
    /\ UNCHANGED <<entry, runs, reads, input, errors, items, idx, state, stack,
                   oracle_log, ret, prev>>

\* fs::write(path, &formatted) fails: UiuaError::Format; the file is as it
\* was when it could not be opened, and truncated when the write itself failed
WriteFail ==
    /\ pc = "ff_write"
    /\ writes' = writes + 1
    /\ file' \in {file, <<>>}
    /\ result' = Res("Err", "Format", <<>>, <<>>)
    /\ pc' = "done"
    /\ UNCHANGED <<entry, runs, reads, input, errors, items, idx, state, stack,
                   oracle_log, ret, prev>>

(* ---------------------------------------------------------------------- *)
(* format                                                                  *)
(* ---------------------------------------------------------------------- *)
\* format that calls format_items whatever the parser reported
FormatParse_NoShortCircuit ==
    /\ pc = "fmt_parse"
    /\ LET r == parse(input)
       IN  /\ errors' = [i \in 1..Len(r.errors) |-> map_into(r.errors[i])]
           /\ items' = r.items
           /\ pc' = "fi_new"
    /\ UNCHANGED <<file, entry, runs, reads, writes, input, idx, state, stack,
                   oracle_log, ret, result, prev>>

\* parse, map the diagnostics; none: call format_items, else return them
FormatParse ==
    /\ pc = "fmt_parse"
    /\ LET r == parse(input)
           es == [i \in 1..Len(r.errors) |-> map_into(r.errors[i])]
       IN  /\ errors' = es
           /\ IF es = <<>>
              THEN items' = r.items /\ pc' = "fi_new" /\ ret' = ret
              ELSE items' = items /\ pc' = "ff_formatted" /\ ret' = Err(es)
    /\ UNCHANGED <<file, entry, runs, reads, writes, input, idx, state, stack,
                   oracle_log, result, prev>>

\* format that forgets errors.extend(e)
FormatMatch_NoExtend ==
    /\ pc = "fmt_match"
    /\ errors' = errors
    /\ ret' = IF ret.tag = "Ok" THEN Ok(ret.text) ELSE Err(errors)
    /\ pc' = "ff_formatted"
    /\ UNCHANGED <<file, entry, runs, reads, writes, input, items, idx, state,
                   stack, oracle_log, result, prev>>

\* `match format_items(items)`: Ok(s) => Ok(s), Err(e) => errors.extend(e)
FormatMatch ==
    /\ pc = "fmt_match"
    /\ IF ret.tag = "Ok"
       THEN errors' = errors /\ ret' = Ok(ret.text)
       ELSE errors' = errors \o ret.errors /\ ret' = Err(errors \o ret.errors)
    /\ pc' = "ff_formatted"
    /\ UNCHANGED <<file, entry, runs, reads, writes, input, items, idx, state,
                   stack, oracle_log, result, prev>>

(* ---------------------------------------------------------------------- *)
(* format_items                                                            *)
(* ---------------------------------------------------------------------- *)
\* a caller invokes format_items(items)
CallFormatItems ==
    /\ entry = "format_items" /\ pc = "idle" /\ runs = 0
    /\ runs' = 1
    /\ pc' = "fi_new"
    /\ UNCHANGED <<file, entry, reads, writes, input, errors, items, idx, state,
                   stack, oracle_log, ret, result, prev>>

\* `let mut state = FormatState { .. compiler: Compiler::new() }`
FormatItemsNew ==
    /\ pc = "fi_new"
    /\ state' = FormatState_new
    /\ idx' = 0
    /\ stack' = <<>>
    /\ oracle_log' = <<LogEntry("new", <<>>, NoItem, 0)>>
    /\ pc' = "fi_loop"
    /\ UNCHANGED <<file, entry, runs, reads, writes, input, errors, items, ret,
                   result, prev>>

\* a loop that stops taking items once the compiler holds a diagnostic
ItemFormat_AbortOnError ==
    /\ pc = "fi_loop" /\ stack = <<>> /\ idx < Len(items)
    /\ IF state.compiler.errors # <<>>
       THEN idx' = Len(items) /\ stack' = <<>>
       ELSE idx' = idx + 1 /\ stack' = Item_format(items[idx + 1])
    /\ UNCHANGED <<file, entry, pc, runs, reads, writes, input, errors, items,
                   state, oracle_log, ret, result, prev>>

\* `for item in items { item.format(&mut state) }`: the next item is taken
ItemFormat ==
    /\ pc = "fi_loop" /\ stack = <<>> /\ idx < Len(items)
    /\ idx' = idx + 1
    /\ stack' = Item_format(items[idx + 1])
    /\ UNCHANGED <<file, entry, pc, runs, reads, writes, input, errors, items,
                   state, oracle_log, ret, result, prev>>

\* word.value.format(state)
WordFormat ==
    /\ pc = "fi_loop" /\ stack # <<>> /\ Head(stack).op = "word"
    /\ LET w == Head(stack).w
       IN  /\ stack' = Word_format(w, state.compiler) \o Tail(stack)
           /\ oracle_log' = IF w.k = "Ident"
                            THEN Append(oracle_log, LogEntry("is_bound", w.s, NoItem, idx))
                            ELSE oracle_log
    /\ UNCHANGED <<file, entry, pc, runs, reads, writes, input, errors, items,
                   idx, state, ret, result, prev>>

\* prim.format(state)
PrimitiveFormat ==
    /\ pc = "fi_loop" /\ stack # <<>> /\ Head(stack).op = "prim"
    /\ stack' = Primitive_format(Head(stack).w.p) \o Tail(stack)
    /\ UNCHANGED <<file, entry, pc, runs, reads, writes, input, errors, items,
                   idx, state, oracle_log, ret, result, prev>>

\* state.space_if_alphanumeric()
SpaceIfAlphanumeric ==
    /\ pc = "fi_loop" /\ stack # <<>> /\ Head(stack).op = "space_if_alphanumeric"
    /\ state' = space_if_alphanumeric(state)
    /\ stack' = Tail(stack)
    /\ UNCHANGED <<file, entry, pc, runs, reads, writes, input, errors, items,
                   idx, oracle_log, ret, result, prev>>

\* state.space_if_alphabetic()
SpaceIfAlphabetic ==
    /\ pc = "fi_loop" /\ stack # <<>> /\ Head(stack).op = "space_if_alphabetic"
    /\ state' = space_if_alphabetic(state)
    /\ stack' = Tail(stack)
    /\ UNCHANGED <<file, entry, pc, runs, reads, writes, input, errors, items,
                   idx, oracle_log, ret, result, prev>>

\* state.push(t)
Push ==
    /\ pc = "fi_loop" /\ stack # <<>> /\ Head(stack).op = "push"
    /\ state' = push(state, Head(stack).t)
    /\ stack' = Tail(stack)
    /\ UNCHANGED <<file, entry, pc, runs, reads, writes, input, errors, items,
                   idx, oracle_log, ret, result, prev>>

\* `state.was_strand = true` at the end of a strand
StrandEnd ==
    /\ pc = "fi_loop" /\ stack # <<>> /\ Head(stack).op = "was_strand"
    /\ state' = [state EXCEPT !.was_strand = TRUE]
    /\ stack' = Tail(stack)
    /\ UNCHANGED <<file, entry, pc, runs, reads, writes, input, errors, items,
                   idx, oracle_log, ret, result, prev>>

\* state.compiler.item(self.clone())
CompilerItem ==
    /\ pc = "fi_loop" /\ stack # <<>> /\ Head(stack).op = "compiler_item"
    /\ state' = [state EXCEPT !.compiler = Compiler_item(@, items[idx])]
    /\ oracle_log' = Append(oracle_log, LogEntry("item", <<>>, items[idx], idx))
    /\ stack' = Tail(stack)
    /\ UNCHANGED <<file, entry, pc, runs, reads, writes, input, errors, items,
                   idx, ret, result, prev>>

\* format_items that never looks at the compiler's errors
format_items_result_IgnoreErrors(st) == Ok(trim_end(st.string) \o <<"\n">>)

\* format_items without trim_end
format_items_result_NoTrim(st) ==
    IF st.compiler.errors # <<>>
    THEN Err(st.compiler.errors)
    ELSE Ok(st.string \o <<"\n">>)

\* format_items without the final push of a newline
format_items_result_NoNewline(st) ==
    IF st.compiler.errors # <<>>
    THEN Err(st.compiler.errors)
    ELSE Ok(trim_end(st.string))

\* the value format_items returns for a FormatState after the loop
format_items_result(st) ==
    IF st.compiler.errors # <<>>
    THEN Err(st.compiler.errors)
    ELSE Ok(trim_end(st.string) \o <<"\n">>)

\* the loop is over: return the diagnostics or the trimmed text
FormatItemsReturn ==
    /\ pc = "fi_loop" /\ stack = <<>> /\ idx = Len(items)
    /\ LET r == format_items_result(state)
       IN  IF entry = "format_items"
           THEN result' = r /\ ret' = ret /\ pc' = "done"
           ELSE result' = result /\ ret' = r /\ pc' = "fmt_match"
    /\ UNCHANGED <<file, entry, runs, reads, writes, input, errors, items, idx,
                   state, stack, oracle_log, prev>>

Next ==
    \/ CallFormatFile \/ ReadOk \/ ReadFail \/ FormatFileCompare
    \/ WriteOk \/ WriteFail
    \/ FormatParse \/ FormatMatch
    \/ CallFormatItems \/ FormatItemsNew \/ ItemFormat
    \/ WordFormat \/ PrimitiveFormat
    \/ SpaceIfAlphanumeric \/ SpaceIfAlphabetic \/ Push \/ StrandEnd
    \/ CompilerItem \/ FormatItemsReturn

Spec == Init /\ [][Next]_vars

(* ---------------------------------------------------------------------- *)
(* Properties                                                              *)
(* ---------------------------------------------------------------------- *)
\* the compiler.item calls made so far, in order
ItemCalls == SelectSeq(oracle_log, LAMBDA e : e.call = "item")

\* the number of compiler.item calls among the first n calls on the compiler
ItemCallsBefore(n) ==
    Len(SelectSeq(SubSeq(oracle_log, 1, n), LAMBDA e : e.call = "item"))

\* a frame that renders content of an item: anything but the registration
\* and the newline that ends the item
IsContent(f) == ~(f.op = "compiler_item" \/ (f.op = "push" /\ f.site = 111))

ContentPending == \E i \in 1..Len(stack) : IsContent(stack[i])

RegistrationPending == \E i \in 1..Len(stack) : stack[i].op = "compiler_item"

\* item k is a Binding of name, for some k before item n
BoundBefore(name, n) ==
    \E j \in 1..(n - 1) : items[j].k = "Binding" /\ items[j].name = name

\* the lines rendered so far
Rendered == SplitLines(state.string, <<>>)

\* the loop of format_items is between two items, or past the last
BetweenItems == pc = "fi_loop" /\ stack = <<>>

\* C1: in format_items, compiler.item(item k) is called after all content of
\* item k is rendered and before any word of item k+1 is rendered or looked
\* up; every item is registered exactly once, in document order.
C1_RenderThenRegister ==
    oracle_log # <<>> =>
        /\ \A j \in 1..Len(ItemCalls) :
              ItemCalls[j].item = items[j] /\ ItemCalls[j].at = j
        /\ \A n \in 1..Len(oracle_log) :
              oracle_log[n].call = "is_bound" =>
                  ItemCallsBefore(n) = oracle_log[n].at - 1
        /\ (pc = "fi_loop" /\ ContentPending) => Len(ItemCalls) = idx - 1
        /\ (pc = "fi_loop" /\ RegistrationPending) => Len(ItemCalls) = idx - 1
        /\ BetweenItems => Len(ItemCalls) = idx
        /\ pc # "fi_loop" => Len(ItemCalls) = Len(items)

\* a run that looked up an identifier of its third item after two
\* registrations
C1_Witness ==
    /\ pc = "done" /\ Len(items) = 3 /\ Len(ItemCalls) = 3
    /\ \E n \in 1..Len(oracle_log) :
          oracle_log[n].call = "is_bound" /\ oracle_log[n].at = 3

\* C2: an identifier that no earlier Binding item defines and that names a
\* primitive is rendered as the primitive's canonical form; after a Binding
\* item of that name, it is rendered by its spelling.
C2_PrimitiveOrBinding ==
    /\ (pc = "fi_loop" /\ stack # <<>> /\ Head(stack).op = "prim"
            /\ Head(stack).site = 143) =>
          \A name \in {id_add, id_sin} :
              from_name(name) = Head(stack).w.p => ~BoundBefore(name, idx)
    /\ (pc = "fi_loop" /\ stack # <<>> /\ Head(stack).op = "push"
            /\ Head(stack).site = 147 /\ from_name(Head(stack).t) # "None") =>
          BoundBefore(Head(stack).t, idx)
    /\ BetweenItems =>
          \A k \in 1..idx : \A name \in {id_add, id_sin} :
              items[k] = Words(<<Ident(name)>>) =>
                  Rendered[k] = IF BoundBefore(name, k) THEN name
                                ELSE prim_to_string(from_name(name))

\* `add` was rendered as `+` in one item and, after `add = ...`, as `add`
C2_Witness ==
    /\ BetweenItems /\ idx = 3
    /\ items[1] = Words(<<Ident(id_add)>>) /\ Rendered[1] = <<"+">>
    /\ items[2].k = "Binding" /\ items[2].name = id_add
    /\ items[3] = Words(<<Ident(id_add)>>) /\ Rendered[3] = id_add

\* C3: while the value of Binding item k is rendered, the compiler has bound
\* only the names of the items before k: the name inside its own definition
\* is rendered as the primitive it names, and by its spelling afterwards.
C3_SelfReference ==
    /\ (pc = "fi_loop" /\ RegistrationPending) =>
          state.compiler.bound =
              {items[j].name : j \in {i \in 1..(idx - 1) : items[i].k = "Binding"}}
    /\ BetweenItems =>
          \A k \in 1..idx : \A name \in {id_add, id_sin} :
              (items[k].k = "Binding" /\ items[k].name = name
                  /\ items[k].words # <<>> /\ items[k].words[1] = Ident(name)
                  /\ ~BoundBefore(name, k)) =>
                 /\ LET head == name \o <<" ", "=", " ">>
                                \o prim_to_string(from_name(name))
                    IN  SubSeq(Rendered[k], 1, Len(head)) = head
                 /\ \A m \in (k + 1)..idx :
                       items[m] = Words(<<Ident(name)>>) => Rendered[m] = name

\* `add = add 1` was rendered as `add = +1` and a later `add` as `add`
C3_Witness ==
    /\ BetweenItems /\ idx = 2
    /\ items[1] = Binding(id_add, <<Ident(id_add), Real(1)>>)
    /\ Rendered[1] = <<"a", "d", "d", " ", "=", " ", "+", "1">>
    /\ items[2] = Words(<<Ident(id_add)>>) /\ Rendered[2] = id_add

\* format has returned to format_file
FormatReturned == pc = "ff_formatted"

\* C4: format returns Ok(text) only when the parse diagnostics and the
\* compiler's diagnostics are both empty; otherwise it returns Err with the
\* diagnostics and no text.
C4_AllOrNothing ==
    FormatReturned =>
        LET clean == parse(input).errors = <<>> /\ state.compiler.errors = <<>>
        IN  /\ ret.tag = "Ok" <=> clean
            /\ ~clean => ret.tag = "Err" /\ ret.errors # <<>> /\ ret.text = <<>>

\* format returned Err although text had been rendered
C4_Witness ==
    /\ FormatReturned /\ ret.tag = "Err"
    /\ state.compiler.errors # <<>> /\ Len(state.string) > 3

\* C5: when the parser reports diagnostics, format returns exactly those
\* without running the serializer: nothing is rendered and no Compiler is
\* created or given an item.
C5_ParseShortCircuit ==
    (entry = "format_file" /\ pc \in {"fi_new", "fi_loop", "fmt_match", "ff_formatted"}) =>
        LET r == parse(input)
        IN  r.errors # <<>> =>
               /\ pc = "ff_formatted"
               /\ ret = Err([i \in 1..Len(r.errors) |-> map_into(r.errors[i])])
               /\ oracle_log = <<>> /\ state = FormatState_new /\ idx = 0

\* format returned the parse diagnostics of a text that also has a line
\* that parses
C5_Witness ==
    /\ FormatReturned /\ Len(errors) = 1 /\ ret = Err(errors)
    /\ parse(input).items # <<>> /\ oracle_log = <<>>

\* C6: one valid item followed by one malformed item yields no text and
\* exactly the malformed item's diagnostic; when the parse diagnostics are
\* empty, format returns the compiler's diagnostics, in order.
C6_ExactDiagnostics ==
    FormatReturned =>
        /\ (parse(input).errors = <<>> /\ ret.tag = "Err") =>
              ret.errors = state.compiler.errors
        /\ (Len(items) = 2 /\ idx = 2 /\ Unresolved(Compiler_new, items[1].words) = <<>>
                /\ items[2] = Words(<<Ident(id_x)>>) /\ ~BoundBefore(id_x, 2)) =>
              ret = Err(<<CompileError("UnknownBinding", id_x, 0)>>)
        /\ input = <<"a", "d", "d", " ", "=", " ", "1", "\n", "1", " ", "$">> =>
              ret = Err(<<CompileError("Parse", <<>>, 2)>>)

\* format returned the one diagnostic of `x` after a line that compiles
C6_Witness ==
    /\ FormatReturned /\ Len(items) = 2 /\ idx = 2
    /\ items[1] = Binding(id_add, <<Real(1)>>) /\ items[2] = Words(<<Ident(id_x)>>)
    /\ ret = Err(<<CompileError("UnknownBinding", id_x, 0)>>)

\* format_file has returned
FormatFileDone == entry = "format_file" /\ pc = "done"

\* C7: format_file reads the file once; it does not write when the formatted
\* text equals the text read, and writes the formatted text once when it
\* differs; no call reads or writes more than once.
C7_NoOpWrite ==
    entry = "format_file" =>
        /\ reads <= 1 /\ writes <= 1
        /\ pc \notin {"idle", "ff_read"} => reads = 1
        /\ pc # "done" => writes = 0
        /\ (FormatFileDone /\ ret.tag = "Ok" /\ ret.text = input) =>
              writes = 0 /\ file = input /\ result = Ok(input)
        /\ (FormatFileDone /\ ret.tag = "Ok" /\ ret.text # input) =>
              writes = 1 /\ (result.tag = "Ok" => file = ret.text /\ result = ret)
        /\ (FormatFileDone /\ ret.tag # "Ok") => writes = 0

\* a file that was already formatted was read and not written
C7_Witness ==
    /\ FormatFileDone /\ runs = 1 /\ reads = 1 /\ writes = 0
    /\ result.tag = "Ok" /\ Len(input) > 3 /\ file = input

FormatItemsReturned(r) ==
    \/ entry = "format_items" /\ pc = "done" /\ r = result
    \/ pc = "fmt_match" /\ r = ret

\* C9: an Ok result of format_items is the buffer without its trailing
\* whitespace, followed by one newline: it ends in exactly one newline that
\* no whitespace precedes; no items give just a newline.
C9_TrailingNormalization ==
    \A r \in {result, ret} :
        (FormatItemsReturned(r) /\ r.tag = "Ok") =>
            LET t == r.text
                n == Len(t)
            IN  /\ n >= 1 /\ t[n] = "\n"
                /\ n >= 2 => ~is_whitespace(t[n - 1])
                /\ SubSeq(t, 1, n - 1) = SubSeq(state.string, 1, n - 1)
                /\ \A i \in n..Len(state.string) : is_whitespace(state.string[i])
                /\ items = <<>> => t = <<"\n">>

\* a comment that ends in a blank, followed by two blank lines
C9_Witness ==
    /\ entry = "format_items" /\ pc = "done"
    /\ items = <<Comment(<<"c", " ">>), Newlines, Newlines>>
    /\ state.string = <<"#", " ", "c", " ", "\n", "\n", "\n">>
    /\ result = Ok(<<"#", " ", "c", "\n">>)

\* the pushes that append the text of a token: Real, Char, String, Ident,
\* Selector and Primitive
TokenSites == {130, 134, 138, 147, 174, 203}

\* the next call appends a token that starts with an alphanumeric character
TokenPush(sites) ==
    /\ pc = "fi_loop" /\ stack # <<>>
    /\ Head(stack).op = "push" /\ Head(stack).site \in sites
    /\ starts_with(Head(stack).t, Alphanumeric)

Strand123 == Strand(<<Real(1), Real(2), Real(3)>>)

\* the text an identifier word of item k is rendered as
IdentText(name, k) ==
    IF BoundBefore(name, k) \/ from_name(name) = "None" THEN name
    ELSE prim_to_string(from_name(name))

NextCall(op) == pc = "fi_loop" /\ stack # <<>> /\ Head(stack).op = op

\* the call about to be made is one of the two spacing rules
SpacingCall == NextCall("space_if_alphanumeric") \/ NextCall("space_if_alphabetic")

\* C12: every append through push clears was_strand, and only the end of a
\* strand sets it: once a spacing rule has appended the space of a strand,
\* was_strand is false until another strand ends.
C12_StrandSpaceOnce ==
    [][/\ NextCall("push") => ~state'.was_strand
       /\ Len(state'.string) > Len(state.string) => ~state'.was_strand
       /\ (state'.was_strand /\ ~state.was_strand) => NextCall("was_strand")
       /\ (SpacingCall /\ state.was_strand) =>
             /\ state'.string = state.string \o <<" ">>
             /\ ~state'.was_strand
       /\ (SpacingCall /\ ~state.was_strand /\ ends_with(state.string, {" "})) =>
             state'.string = state.string]_vars

\* the space of the strand `1_2` has been appended, once, and a number follows
C12_Witness ==
    /\ NextCall("push") /\ Head(stack).site = 130
    /\ state.string = <<"1", "_", "2", " ">>
    /\ ~state.was_strand

\* s is a prefix of t
IsPrefix(s, t) == Len(s) <= Len(t) /\ SubSeq(t, 1, Len(s)) = s

\* C13: during the tree walk every step leaves the buffer it found as a
\* prefix of the buffer it leaves: written text is never removed, changed or
\* reordered.
C13_AppendOnly ==
    [][(pc = "fi_loop" /\ pc' = "fi_loop") => IsPrefix(state.string, state'.string)]_vars

\* the walk is inside its second item with the first in the buffer
C13_Witness ==
    /\ pc = "fi_loop" /\ idx = 2 /\ ContentPending
    /\ Len(state.string) > 3 /\ Len(Rendered) = 2

\* what holds when format_file has returned an error
C14_AfterFailure ==
    /\ (FormatFileDone /\ result.kind = "Load") =>
          /\ reads = 1 /\ writes = 0
          /\ ret = NoRes /\ oracle_log = <<>> /\ idx = 0
    /\ (FormatFileDone /\ ret.tag = "Err") =>
          /\ result = ret /\ result.kind = "Diagnostics" /\ result.errors # <<>>
          /\ reads = 1 /\ writes = 0 /\ file = input
    /\ (FormatFileDone /\ result.kind = "Format") =>
          /\ reads = 1 /\ writes = 1
          /\ ret.tag = "Ok" /\ ret.text # input
    /\ (FormatFileDone /\ result.tag = "Err") =>
          result.kind \in {"Load", "Diagnostics", "Format"}
    /\ entry = "format_file" => reads <= 1 /\ writes <= 1

\* C14: a failed read returns the Load error without formatting or writing;
\* diagnostics are returned without writing and the file is unchanged; a
\* failed write is an error of its own kind; nothing is retried: the file
\* changes only in the one write, and a call that returned stays returned.
C14_FailureTerminal ==
    /\ []C14_AfterFailure
    /\ [][/\ file' # file => pc = "ff_write"
          /\ (pc = "done" /\ runs' = runs) => UNCHANGED vars]_vars

\* format_file returned the compiler's diagnostics after rendering, and the
\* file is as it was read
C14_Witness ==
    /\ FormatFileDone /\ result.kind = "Diagnostics"
    /\ state.compiler.errors # <<>> /\ Len(state.string) > 3
    /\ writes = 0 /\ file = input

\* the words before an identifier or primitive in the two-word items, and
\* the text each is rendered as at the start of a line
FirstWords == {Real(1), Ident(id_x), Primitive("Add"), Strand(<<Real(1), Real(2)>>)}

FirstText(w) ==
    CASE w = Real(1) -> <<"1">>
      [] w = Ident(id_x) -> id_x
      [] w = Primitive("Add") -> <<"+">>
      [] w = Strand(<<Real(1), Real(2)>>) -> <<"1", "_", "2">>

\* C15, on the steps: space_if_alphabetic appends one space iff was_strand
\* is set or the buffer ends in an alphabetic character; the spelling of the
\* identifier or the selector is appended right after it.
C15_Steps ==
    [][/\ NextCall("space_if_alphabetic") =>
             /\ state'.string =
                   IF state.was_strand \/ ends_with(state.string, Alphabetic)
                   THEN state.string \o <<" ">> ELSE state.string
             /\ stack' # <<>> /\ Head(stack').op = "push"
             /\ Head(stack').site \in {147, 174}
       /\ (NextCall("push") /\ Head(stack).site \in {147, 174}) =>
             state'.string = state.string \o Head(stack).t]_vars

\* C15, on the text: after a word a, an identifier rendered by its spelling
\* or a selector follows a space iff a is a strand or ends in a letter
C15_Text ==
    /\ \A i \in 2..Len(stack) :
          (stack[i].op = "push" /\ stack[i].site \in {147, 174}) =>
              stack[i - 1].op = "space_if_alphabetic"
    /\ BetweenItems =>
          \A k \in 1..idx : \A a \in FirstWords :
              \A b \in {Ident(id_x), Ident(<<"x", "1">>), Selector(<<"a">>)} :
                  items[k] = Words(<<a, b>>) =>
                      Rendered[k] =
                          FirstText(a)
                          \o (IF a.k = "Strand" \/ ends_with(FirstText(a), Alphabetic)
                              THEN <<" ">> ELSE <<>>)
                          \o b.s

\* C15: before an identifier rendered by its spelling, or a selector, one
\* space is appended iff was_strand is set or the buffer ends in an
\* alphabetic character; after a digit, with was_strand false, none is.
C15_IdentSpacing == []C15_Text /\ C15_Steps

\* the identifier x is about to be appended right after the digit 1
C15_Witness ==
    /\ NextCall("push") /\ Head(stack).site = 147 /\ Head(stack).t = id_x
    /\ ends_with(state.string, {"1"}) /\ ~state.was_strand

\* C16, on the steps: a primitive with an alphabetic form calls
\* space_if_alphanumeric and then pushes the form; any other form is pushed
\* at once, and the push clears was_strand.
C16_Steps ==
    [][/\ (NextCall("space_if_alphanumeric") /\ Head(stack).site = 201) =>
             /\ state'.string =
                   IF state.was_strand \/ ends_with(state.string, Alphanumeric)
                   THEN state.string \o <<" ">> ELSE state.string
             /\ stack' # <<>> /\ Head(stack').op = "push" /\ Head(stack').site = 203
       /\ (NextCall("prim") /\ ~starts_with(prim_to_string(Head(stack).w.p), Alphabetic)) =>
             /\ state' = state
             /\ stack' # <<>> /\ Head(stack') = FPush(prim_to_string(Head(stack).w.p), 203)
       /\ (NextCall("push") /\ Head(stack).site = 203) =>
             /\ state'.string = state.string \o Head(stack).t
             /\ ~state'.was_strand]_vars

\* C16, on the text: after a word a, a primitive with an alphabetic form
\* follows a space iff a is a strand or ends in an alphanumeric character;
\* a symbolic form follows a directly
C16_Text ==
    BetweenItems =>
        \A k \in 1..idx : \A a \in FirstWords :
            \A b \in {Primitive("Add"), Primitive("Sin"), Ident(id_add), Ident(id_sin)} :
                (items[k] = Words(<<a, b>>)
                    /\ (b.k = "Ident" => ~BoundBefore(b.s, k))) =>
                   LET form == prim_to_string(IF b.k = "Ident" THEN from_name(b.s) ELSE b.p)
                   IN  Rendered[k] =
                           FirstText(a)
                           \o (IF starts_with(form, Alphabetic)
                                  /\ (a.k = "Strand" \/ ends_with(FirstText(a), Alphanumeric))
                               THEN <<" ">> ELSE <<>>)
                           \o form

\* C16: a primitive, explicit or resolved from an unbound identifier, whose
\* form begins with an alphabetic character gets one space iff was_strand is
\* set or the buffer ends in an alphanumeric character; any other form is
\* appended with no space, also right after a strand or an alphanumeric.
C16_PrimitiveSpacing == []C16_Text /\ C16_Steps

\* `+` was appended right after the strand `1_2`
C16_Witness ==
    /\ BetweenItems /\ idx = 1
    /\ items[1] = Words(<<Strand(<<Real(1), Real(2)>>), Ident(id_add)>>)
    /\ Rendered[1] = <<"1", "_", "2", "+">>

\* the calls made on the compiler for item k so far
CallsAt(k) == SelectSeq(oracle_log, LAMBDA e : e.at = k /\ e.call # "new")

\* C17: a Binding item renders its name by its spelling as the first text of
\* its line, with no lookup and no spacing rule, then exactly ` = `, then the
\* value words in order; no space follows ` = `.
C17_BindingHeader ==
    /\ (NextCall("push") /\ Head(stack).site = 117) =>
          /\ Head(stack).t = items[idx].name
          /\ state.string = <<>> \/ ends_with(state.string, {"\n"})
          /\ CallsAt(idx) = <<>>
    /\ (NextCall("push") /\ Head(stack).site = 118) =>
          /\ IsPrefix(items[idx].name, Rendered[idx])
          /\ Rendered[idx] = items[idx].name
          /\ CallsAt(idx) = <<>>
          /\ SubSeq(stack, 2, Len(stack) - 2) = FWords(items[idx].words)
    /\ BetweenItems =>
          \A k \in 1..idx :
              items[k].k = "Binding" =>
                  LET head == items[k].name \o <<" ", "=", " ">>
                      line == Rendered[k]
                  IN  /\ IsPrefix(head, line)
                      /\ items[k].words = <<>> => line = head
                      /\ Len(line) > Len(head) => line[Len(head) + 1] # " "
                      /\ items[k].words = <<Real(10)>> => line = head \o <<"1", "0">>
                      /\ (items[k].words = <<Ident(id_add), Real(1)>>
                             /\ ~BoundBefore(id_add, k)) => line = head \o <<"+", "1">>

\* the binding of `add`, the first item, was rendered as `add = +1`
C17_Witness ==
    /\ BetweenItems /\ idx = 1
    /\ items[1].k = "Binding" /\ items[1].name = id_add
    /\ Rendered[1] = <<"a", "d", "d", " ", "=", " ", "+", "1">>

\* C18: a call of space_if_alphanumeric or space_if_alphabetic appends
\* nothing or one space, never two: exactly one space when was_strand is set,
\* nothing when was_strand is false and the buffer is empty or ends in a
\* character that is not alphanumeric.
C18_OneSpace ==
    [][SpacingCall =>
          /\ state'.string \in {state.string, state.string \o <<" ">>}
          /\ state.was_strand => state'.string = state.string \o <<" ">>
          /\ (~state.was_strand /\ ~ends_with(state.string, Alphanumeric)) =>
                state'.string = state.string
          /\ ~state'.was_strand
          /\ state'.compiler = state.compiler]_vars

\* after the strand `x_sin`, which ends in a letter, one space was appended
\* before the identifier x
C18_Witness ==
    /\ NextCall("push") /\ Head(stack).site = 147
    /\ state.string = <<"x", "_", "s", "i", "n", " ">>
    /\ ~state.was_strand

\* the newlines in the buffer
NewlineCount == Len(SelectSeq(state.string, LAMBDA c : c = "\n"))

\* C19: every item, a Newlines item and a Comment item included, appends
\* exactly one newline, after its content and after its registration; so when
\* an item begins was_strand is false and the buffer is empty or ends in a
\* newline, no line begins with a space, and no spacing rule appends a space
\* at the start of a line.
C19_Boundary ==
    /\ BetweenItems =>
          /\ ~state.was_strand
          /\ NewlineCount = idx
          /\ Len(ItemCalls) = idx
          /\ IF idx = 0 THEN state.string = <<>>
                        ELSE ends_with(state.string, {"\n"})
          /\ \A k \in 1..idx :
                /\ Rendered[k] # <<>> => Rendered[k][1] # " "
                /\ items[k].k = "Newlines" => Rendered[k] = <<>>
                /\ items[k].k = "Comment" =>
                      Rendered[k] = <<"#", " ">> \o items[k].comment
    /\ (NextCall("push") /\ Head(stack).site = 111) =>
          /\ Len(stack) = 1
          /\ Len(ItemCalls) = idx
          /\ NewlineCount = idx - 1
    /\ (pc = "fi_loop" /\ stack # <<>>) => NewlineCount = idx - 1
    /\ (SpacingCall /\ (state.string = <<>> \/ ends_with(state.string, {"\n"}))) =>
          ~state.was_strand

\* the item after an item that ends in a strand was rendered with no leading
\* space
C19_Witness ==
    /\ BetweenItems /\ idx = 2
    /\ items[1] = Words(<<Strand(<<Real(1), Real(2)>>)>>)
    /\ items[2] = Words(<<Real(1), Ident(id_sin)>>)
    /\ state.string = <<"1", "_", "2", "\n", "1", " ", "s", "i", "n", "\n">>

\* the items that leave a diagnostic: an identifier that is neither bound by
\* an earlier item nor the name of a primitive
BadItems ==
    {k \in 1..Len(items) :
        LET ids == IdentsOf(items[k].words)
        IN  \E i \in 1..Len(ids) :
                ~BoundBefore(ids[i], k) /\ from_name(ids[i]) = "None"}

\* C20: a diagnostic recorded at an item does not stop the loop: every later
\* item is still rendered and registered in order, the diagnostics are looked
\* at once, after the last item, and an Err carries those of all items.
C20_State ==
    /\ \A r \in {result, ret} :
          FormatItemsReturned(r) =>
              /\ idx = Len(items)
              /\ Len(ItemCalls) = Len(items)
              /\ \A j \in 1..Len(items) : ItemCalls[j].item = items[j]
              /\ NewlineCount = Len(items)
              /\ r.tag = "Err" <=> BadItems # {}
              /\ r.tag = "Err" =>
                    /\ r.errors = state.compiler.errors
                    /\ Len(r.errors) = Cardinality(BadItems)
    /\ pc = "fi_loop" => Len(state.compiler.errors) =
                            Cardinality({k \in BadItems : k <= Len(ItemCalls)})

C20_Steps ==
    [][/\ (pc = "fi_loop" /\ pc' # "fi_loop") => (stack = <<>> /\ idx = Len(items))
       /\ (pc = "fi_loop" /\ pc' = "fi_loop" /\ idx' # idx) =>
             (idx' = idx + 1 /\ stack' = Item_format(items[idx']))]_vars

C20_NoEarlyAbort == []C20_State /\ C20_Steps

\* format_items returned two diagnostics, of the first and the third of three
\* items, and all three items were rendered and registered
C20_Witness ==
    /\ entry = "format_items" /\ pc = "done"
    /\ Len(items) = 3 /\ BadItems = {1, 3}
    /\ result.tag = "Err" /\ Len(result.errors) = 2
    /\ Len(ItemCalls) = 3 /\ NewlineCount = 3

====
